---- MODULE Spec2Model ----
(***************************************************************************)
(* Model of the two Lambda entry points of otel-lambda-demo:               *)
(*   python_src/api_handler.py      (handler "api")                        *)
(*   python_src/lambda_function.py  (handler "fn")                         *)
(* One run is one invocation of lambda_handler in one process.  A process  *)
(* resolves its sink configuration once, when the module is imported.      *)
(* Runs are indexed so that two runs can be compared with each other.      *)
(***************************************************************************)
EXTENDS Integers, Sequences, FiniteSets, TLC

VARIABLES handler, cfg, event, request, ctx, fault, pc, after, onRaise, pend,
          exc, parsed, spans, sends, posts, counterAdds, histRecs, ops, resp

vars == <<handler, cfg, event, request, ctx, fault, pc, after, onRaise, pend,
          exc, parsed, spans, sends, posts, counterAdds, histRecs, ops, resp>>

inputs == <<handler, cfg, event, request, ctx, fault>>

Runs == {1, 2}

(***************************************************************************)
(* Inputs.                                                                 *)
(***************************************************************************)
\* os.environ.get(NAME): unset (None), set to the empty string, or set.
EnvValues == {"absent", "empty", "set"}

ConfigFields == {"base_endpoint", "username", "password", "organization"}

SinkConfigs == [ConfigFields -> EnvValues]

Handlers == {"api", "fn"}

\* The event the runtime hands over: a JSON object with well-formed fields, a
\* JSON object whose requestContext is null, or a JSON value that is no object.
EventKinds == {"object", "null_request_context", "not_object"}

\* The fields of an API Gateway event that lambda_handler reads.  User-Agent
\* lies in headers, identity and requestId in requestContext, sourceIp in
\* identity.
RequestFields ==
    {"httpMethod", "path", "queryStringParameters", "headers", "User-Agent",
     "requestContext", "identity", "sourceIp", "requestId"}

\* A field is missing from its mapping, there with the value null, or there
\* with a value.
Presence == {"absent", "null", "present"}

ParentField(f) ==
    IF f = "User-Agent" THEN "headers"
    ELSE IF f \in {"identity", "requestId"} THEN "requestContext"
    ELSE IF f = "sourceIp" THEN "identity"
    ELSE "event"

\* The shapes of an event that is a JSON object: a field can only be there
\* when the mapping that holds it is.
Requests ==
    {q \in [RequestFields -> Presence] :
        \A f \in RequestFields :
            (ParentField(f) # "event" /\ q[ParentField(f)] # "present") => q[f] = "absent"}

AllPresent == [f \in RequestFields |-> "present"]

\* The event of each kind that an invocation is given.
RequestOfKind(e) ==
    IF e = "null_request_context"
    THEN [f \in RequestFields |->
            IF f = "requestContext" THEN "null"
            ELSE IF ParentField(f) \in {"requestContext", "identity"} THEN "absent"
            ELSE "present"]
    ELSE AllPresent

KindOfRequest(q) ==
    IF q["requestContext"] = "null" THEN "null_request_context" ELSE "object"

\* dict.get(key, default): the default only when the key is missing.
Get(p, default) ==
    IF p = "absent" THEN default ELSE IF p = "null" THEN "None" ELSE "value"

\* A read that forgets the "or {}".
OrEmptyDictForgotten(v) == v

\* x or {}: a None (or empty) value becomes the empty dict.
OrEmptyDict(v) == IF v = "None" THEN "{}" ELSE v

\* lambda_handler of api_handler.py: the extraction of the request fields.
\* A .get on None raises; what is read after that point stays unset.
ParseRequest(q) ==
    LET headers == OrEmptyDict(Get(q["headers"], "None"))
        rc == Get(q["requestContext"], "{}")
        identity == IF rc = "{}" THEN "{}" ELSE Get(q["identity"], "{}")
        faulted == rc = "None" \/ identity = "None"
    IN  [fault |-> faulted,
         method |-> Get(q["httpMethod"], "UNKNOWN"),
         path |-> Get(q["path"], "/"),
         query_params |-> OrEmptyDict(Get(q["queryStringParameters"], "None")),
         headers |-> headers,
         user_agent |-> IF headers = "{}" THEN "unknown"
                        ELSE Get(q["User-Agent"], "unknown"),
         source_ip |-> IF faulted THEN "unset"
                       ELSE IF identity = "{}" THEN "unknown"
                       ELSE Get(q["sourceIp"], "unknown"),
         api_gateway_request_id |-> IF faulted THEN "unset"
                                    ELSE IF rc = "{}" THEN ""
                                    ELSE Get(q["requestId"], "")]

NotParsed ==
    [fault |-> FALSE, method |-> "unset", path |-> "unset", query_params |-> "unset",
     headers |-> "unset", user_agent |-> "unset", source_ip |-> "unset",
     api_gateway_request_id |-> "unset"]

RequestIds == {"req-a", "req-b"}

\* The context: a Lambda context carrying aws_request_id, or None.
Contexts == RequestIds \cup {"none"}

\* The sub-operation in which a fault is raised during this invocation.
FaultSites(h) ==
    IF h = "fn"
    THEN {"process_business_logic_attrs", "dynamodb", "s3", "process_business_logic_work"}
    ELSE {"process_api_request_attrs", "external_api", "process_api_request_work"}

\* What one send_logs call meets once the sink is enabled.
SinkOutcomes == {"2xx", "503", "transport_exception", "build_exception"}

FaultMessage(site) == "fault in " \o site

AttributeErrorMessage == "object has no attribute"

GenericError == "Internal server error"

Truthy(v) == v = "set"

(***************************************************************************)
(* Spans (opentelemetry.trace).                                            *)
(***************************************************************************)
\* The span of the current tracing context.  Every span of both modules is
\* made with tracer.start_span, which never attaches the new span to the
\* context, so the context holds no span of this code.
CurrentSpan == "none"

NewSpan(name) ==
    [name |-> name, parent |-> CurrentSpan, status |-> "UNSET", asked |-> {},
     exception |-> "none", ends |-> 0, request_id |-> "none"]

\* span.set_attributes with the request id ("request.id", "faas.execution").
SetRequestId(s, rid) == [s EXCEPT !.request_id = rid]

\* span.set_status: a status of OK is final.
SetStatus(s, st) ==
    [s EXCEPT !.status = IF @ = "OK" THEN @ ELSE st, !.asked = @ \cup {st}]

RecordException(s, m) == [s EXCEPT !.exception = m]

EndSpan(s) == [s EXCEPT !.ends = @ + 1]

\* An except branch that records the exception but never sets the status.
FailSpanNoStatus(s, m) == EndSpan(RecordException(s, m))

\* The except branch of a span-wrapped block: record, mark ERROR; then finally.
FailSpan(s, m) == EndSpan(SetStatus(RecordException(s, m), "ERROR"))

\* The tail of the try branch of a span-wrapped block: mark OK; then finally.
SucceedSpan(s) == EndSpan(SetStatus(s, "OK"))

\* What a frame does to the span it holds: "attrs" (set_attributes with the
\* request id m) or, when the frame is left, "ok" (the try branch ran to its
\* return), "fail" (its except clause ran) or "end" (only its finally ran).
OnSpan(ss, name, how, m) ==
    [i \in DOMAIN ss |->
        IF ss[i].name # name THEN ss[i]
        ELSE IF how = "attrs" THEN SetRequestId(ss[i], m)
        ELSE IF how = "ok" THEN SucceedSpan(ss[i])
        ELSE IF how = "fail" THEN FailSpan(ss[i], m)
        ELSE EndSpan(ss[i])]

HandlerSpanName(h) == IF h = "api" THEN "api_gateway_handler" ELSE "lambda_handler"

SendSpanName(h) ==
    IF h = "api" THEN "send_api_logs_to_openobserve" ELSE "send_logs_to_openobserve"

(***************************************************************************)
(* OpenObserveLogger.                                                      *)
(***************************************************************************)
\* __init__: the auth header is derived when username and password are truthy.
AuthHeader(c) ==
    IF Truthy(c["username"]) /\ Truthy(c["password"]) THEN "Basic" ELSE "None"

\* A completeness test that forgets the credentials.
SinkEnabledNoCredentials(c) == Truthy(c["base_endpoint"]) /\ Truthy(c["organization"])

\* A completeness test that forgets the organization.
SinkEnabledNoOrg(c) == \A f \in ConfigFields \ {"organization"} : Truthy(c[f])

\* send_logs: all([base_endpoint, username, password, organization]).
SinkEnabled(c) == \A f \in ConfigFields : Truthy(c[f])

\* A send_logs whose disabled early return skips span.end().
SendLogsResultNoEnd(c, o) ==
    IF \E f \in ConfigFields : ~Truthy(c[f])
    THEN [posted |-> FALSE, status |-> "UNSET", exception |-> "none",
          ends |-> 0, raised |-> FALSE]
    ELSE [posted |-> TRUE, status |-> IF o = "2xx" THEN "OK" ELSE "ERROR",
          exception |-> "none", ends |-> 1, raised |-> FALSE]

\* A send_logs that lets a transport exception out to its caller.
SendLogsResultRaising(c, o) ==
    IF \E f \in ConfigFields : ~Truthy(c[f])
    THEN [posted |-> FALSE, status |-> "UNSET", exception |-> "none",
          ends |-> 1, raised |-> FALSE]
    ELSE [posted |-> o # "build_exception",
          status |-> IF o = "2xx" THEN "OK" ELSE "ERROR",
          exception |-> IF o \in {"2xx", "503"} THEN "none" ELSE "failed",
          ends |-> 1, raised |-> o = "transport_exception"]

\* A send_logs that raises on a non-2xx answer of the sink.
SendLogsResultStrict(c, o) ==
    IF \E f \in ConfigFields : ~Truthy(c[f])
    THEN [posted |-> FALSE, status |-> "UNSET", exception |-> "none",
          ends |-> 1, raised |-> FALSE]
    ELSE [posted |-> o # "build_exception",
          status |-> IF o = "2xx" THEN "OK" ELSE "ERROR",
          exception |-> IF o \in {"2xx", "503"} THEN "none" ELSE "failed",
          ends |-> 1, raised |-> o = "503"]

\* send_logs, from the call to the return: whether a POST was issued, the
\* final state of its span, and whether an exception left the call.
SendLogsResult(c, o) ==
    IF ~SinkEnabled(c)
    THEN [posted |-> FALSE, status |-> "UNSET", exception |-> "none",
          ends |-> 1, raised |-> FALSE]
    ELSE IF o = "build_exception"
    THEN [posted |-> FALSE, status |-> "ERROR", exception |-> "build failed",
          ends |-> 1, raised |-> FALSE]
    ELSE IF o = "transport_exception"
    THEN [posted |-> TRUE, status |-> "ERROR", exception |-> "transport failed",
          ends |-> 1, raised |-> FALSE]
    ELSE IF o = "2xx"
    THEN [posted |-> TRUE, status |-> "OK", exception |-> "none",
          ends |-> 1, raised |-> FALSE]
    ELSE [posted |-> TRUE, status |-> "ERROR", exception |-> "none",
          ends |-> 1, raised |-> FALSE]

SendSpan(h, res) ==
    [name |-> SendSpanName(h), parent |-> CurrentSpan, status |-> res.status,
     asked |-> IF res.status = "UNSET" THEN {} ELSE {res.status},
     exception |-> res.exception, ends |-> res.ends, request_id |-> "none"]

\* The log record a call ships: envelope and metadata.
LogCall(message, level, rid, detail) ==
    [message |-> message, level |-> level, request_id |-> rid, detail |-> detail]

NoCall == LogCall("none", "none", "none", {})

(***************************************************************************)
(* Responses.                                                              *)
(***************************************************************************)
Timestamp == "utc-iso-8601-Z"

\* An error body that reports the exception text to the caller.
ErrorBodyLeaky(rid, e) ==
    [error |-> e, requestId |-> rid, timestamp |-> Timestamp]

\* lambda_handler, the body of error_response.
ErrorBody(rid, e) ==
    [error |-> GenericError, requestId |-> rid, timestamp |-> Timestamp]

\* lambda_handler, the body of response.
SuccessBody(h, rid) ==
    IF h = "api"
    THEN [message |-> "API request processed successfully", requestId |-> rid,
          method |-> "method", path |-> "path", queryParams |-> "query",
          processingResult |-> "processing result", responseTime |-> "elapsed",
          timestamp |-> Timestamp]
    ELSE [message |-> "Function executed successfully", requestId |-> rid,
          result |-> "business result", timestamp |-> Timestamp]

Response(code, body) == [statusCode |-> code, body |-> body]

\* A sub-operation that swallows its fault and lets the caller go on.
PropagateSwallow(faulted, okPc, excPc) == okPc

\* A sub-operation's except/raise: the fault goes to the enclosing handler.
Propagate(faulted, okPc, excPc) == IF faulted THEN excPc ELSE okPc

\* The span of a leaf sub-operation, from start_span to span.end.
SubOpSpan(name, faulted, m) ==
    IF faulted THEN FailSpan(NewSpan(name), m) ELSE SucceedSpan(NewSpan(name))

\* traceback.format_exc() of the exception being handled.
TracebackOf(m) == "Traceback: " \o m

\* The metadata of an error log: error_message and error_traceback.
ErrorDetail(m) == {m, TracebackOf(m)}

(***************************************************************************)
(* Initial states.                                                         *)
(***************************************************************************)
AllAbsent == [f \in ConfigFields |-> "absent"]

InitRuns(active, configs) ==
    /\ handler \in [Runs -> Handlers]
    /\ cfg \in [Runs -> configs]
    /\ \A r \in Runs \ active : handler[r] = "fn" /\ cfg[r] = AllAbsent
    /\ event = [r \in Runs |-> "object"]
    /\ request = [r \in Runs |-> AllPresent]
    /\ parsed = [r \in Runs |-> NotParsed]
    /\ ctx = [r \in Runs |-> "none"]
    /\ fault = [r \in Runs |-> "none"]
    /\ pc = [r \in Runs |-> IF r \in active THEN "idle" ELSE "off"]
    /\ after = [r \in Runs |-> "none"]
    /\ onRaise = [r \in Runs |-> "none"]
    /\ pend = [r \in Runs |-> NoCall]
    /\ exc = [r \in Runs |-> "none"]
    /\ spans = [r \in Runs |-> <<>>]
    /\ sends = [r \in Runs |-> <<>>]
    /\ posts = [r \in Runs |-> <<>>]
    /\ counterAdds = [r \in Runs |-> <<>>]
    /\ histRecs = [r \in Runs |-> <<>>]
    /\ ops = [r \in Runs |-> <<>>]
    /\ resp = [r \in Runs |-> <<>>]

Init == InitRuns({1}, SinkConfigs)

(***************************************************************************)
(* Control.                                                                *)
(***************************************************************************)
\* A request id kept in a module-level variable that every invocation
\* writes: with another invocation in flight, it holds that one's id.
RequestIdShared(r) ==
    IF \E o \in Runs \ {r} : pc[o] \notin {"off", "idle"}
    THEN ctx[CHOOSE o \in Runs \ {r} : pc[o] \notin {"off", "idle"}]
    ELSE ctx[r]

\* context.aws_request_id, and the request_id argument it is passed on as.
RequestId(r) == ctx[r]

\* A call of openobserve_logger.send_logs from the handler code.
CallSendLogs(r, call, ret, handlerPc) ==
    /\ pend' = [pend EXCEPT ![r] = call]
    /\ after' = [after EXCEPT ![r] = ret]
    /\ onRaise' = [onRaise EXCEPT ![r] = handlerPc]
    /\ pc' = [pc EXCEPT ![r] = "send_logs"]

\* An exception raised in a try block reaches its except clause.
Raise(r, m, handlerPc) ==
    /\ exc' = [exc EXCEPT ![r] = m]
    /\ pc' = [pc EXCEPT ![r] = handlerPc]

Log(r, e) == ops' = [ops EXCEPT ![r] = Append(@, e)]

\* lambda_handler(event, context) up to the try: start_time, tracer.start_span.
InvokeWith(r, e, q, c, f) ==
    /\ pc[r] = "idle"
    /\ event' = [event EXCEPT ![r] = e]
    /\ request' = [request EXCEPT ![r] = q]
    /\ ctx' = [ctx EXCEPT ![r] = c]
    /\ fault' = [fault EXCEPT ![r] = f]
    /\ spans' = [spans EXCEPT ![r] = <<NewSpan(HandlerSpanName(handler[r]))>>]
    /\ pc' = [pc EXCEPT ![r] = "body"]
    /\ UNCHANGED <<handler, cfg, after, onRaise, pend, exc, parsed, sends, posts,
                   counterAdds, histRecs, ops, resp>>

\* An invocation with an event of one of the kinds.
Invoke(r) ==
    \E e \in EventKinds, c \in Contexts, f \in FaultSites(handler[r]) \cup {"none"} :
        InvokeWith(r, e, RequestOfKind(e), c, f)

\* An invocation of the API handler with an event object of any shape, a
\* Lambda context, and sub-operations that succeed.
InvokeRequest(r) ==
    /\ pc[r] = "idle"
    /\ handler[r] = "api"
    /\ \E q \in Requests, c \in RequestIds :
        InvokeWith(r, KindOfRequest(q), q, c, "none")

\* OpenObserveLogger.send_logs, the whole call.
SendLogs(r) ==
    /\ pc[r] = "send_logs"
    /\ \E o \in SinkOutcomes :
        LET res == SendLogsResult(cfg[r], o) IN
        /\ spans' = [spans EXCEPT ![r] = Append(@, SendSpan(handler[r], res))]
        /\ sends' = [sends EXCEPT ![r] =
                Append(@, [call |-> pend[r], posted |-> res.posted,
                           span |-> Len(spans[r]) + 1, raised |-> res.raised,
                           outcome |-> IF SinkEnabled(cfg[r]) THEN o ELSE "disabled"])]
        /\ posts' = [posts EXCEPT ![r] =
                IF res.posted
                THEN Append(@, [authorization |-> AuthHeader(cfg[r]), record |-> pend[r]])
                ELSE @]
        /\ IF res.raised
           THEN Raise(r, "send_logs failed", onRaise[r])
           ELSE /\ pc' = [pc EXCEPT ![r] = after[r]]
                /\ exc' = exc
    /\ Log(r, "send:" \o pend[r].message)
    /\ UNCHANGED <<inputs, parsed, after, onRaise, pend, counterAdds, histRecs, resp>>

\* The finally of lambda_handler when an exception leaves the except clause.
HandlerEscape(r) ==
    /\ pc[r] = "escape"
    /\ spans' = [spans EXCEPT ![r] = OnSpan(@, HandlerSpanName(handler[r]), "end", "none")]
    /\ pc' = [pc EXCEPT ![r] = "raised"]
    /\ UNCHANGED <<inputs, parsed, after, onRaise, pend, exc, sends, posts,
                   counterAdds, histRecs, ops, resp>>

(***************************************************************************)
(* lambda_function.py                                                      *)
(***************************************************************************)
\* lambda_handler, the try block up to the startup log.
FnReceive(r) ==
    /\ pc[r] = "body"
    /\ handler[r] = "fn"
    /\ IF ctx[r] = "none" \/ event[r] = "not_object"
       THEN /\ Raise(r, AttributeErrorMessage, "fn_except")
            /\ UNCHANGED <<pend, after, onRaise>>
       ELSE /\ CallSendLogs(r, LogCall("Lambda function invocation started", "info",
                                       RequestId(r), {}), "fn_process", "fn_except")
            /\ exc' = exc
    /\ spans' = [spans EXCEPT ![r] =
            IF ctx[r] = "none" THEN @
            ELSE OnSpan(@, "lambda_handler", "attrs", RequestId(r))]
    /\ UNCHANGED <<inputs, parsed, sends, posts, counterAdds, histRecs, ops, resp>>

\* process_business_logic, from start_span to the first sub-operation.
PblEnter(r) ==
    /\ pc[r] = "fn_process"
    /\ spans' = [spans EXCEPT ![r] =
            Append(@, IF fault[r] = "process_business_logic_attrs"
                      THEN NewSpan("process_business_logic")
                      ELSE SetRequestId(NewSpan("process_business_logic"), RequestId(r)))]
    /\ Log(r, "call:process_business_logic")
    /\ IF fault[r] = "process_business_logic_attrs"
       THEN Raise(r, FaultMessage(fault[r]), "pbl_except")
       ELSE /\ pc' = [pc EXCEPT ![r] = "dynamodb"]
            /\ exc' = exc
    /\ UNCHANGED <<inputs, parsed, after, onRaise, pend, sends, posts, counterAdds,
                   histRecs, resp>>

\* simulate_dynamodb_operation, the whole call.
SimulateDynamoDB(r) ==
    /\ pc[r] = "dynamodb"
    /\ LET faulted == fault[r] = "dynamodb" IN
        /\ spans' = [spans EXCEPT ![r] =
                Append(@, SetRequestId(SubOpSpan("dynamodb_operation", faulted,
                                                 FaultMessage("dynamodb")), RequestId(r)))]
        /\ ops' = [ops EXCEPT ![r] =
                @ \o <<"call:dynamodb", IF faulted THEN "raise:dynamodb" ELSE "return:dynamodb">>]
        /\ pc' = [pc EXCEPT ![r] = Propagate(faulted, "s3", "pbl_except")]
        /\ exc' = [exc EXCEPT ![r] = IF faulted THEN FaultMessage("dynamodb") ELSE @]
    /\ UNCHANGED <<inputs, parsed, after, onRaise, pend, sends, posts, counterAdds,
                   histRecs, resp>>

\* simulate_s3_operation, the whole call.
SimulateS3(r) ==
    /\ pc[r] = "s3"
    /\ LET faulted == fault[r] = "s3" IN
        /\ spans' = [spans EXCEPT ![r] =
                Append(@, SetRequestId(SubOpSpan("s3_operation", faulted,
                                                 FaultMessage("s3")), RequestId(r)))]
        /\ ops' = [ops EXCEPT ![r] =
                @ \o <<"call:s3", IF faulted THEN "raise:s3" ELSE "return:s3">>]
        /\ pc' = [pc EXCEPT ![r] = Propagate(faulted, "pbl_work", "pbl_except")]
        /\ exc' = [exc EXCEPT ![r] = IF faulted THEN FaultMessage("s3") ELSE @]
    /\ UNCHANGED <<inputs, parsed, after, onRaise, pend, sends, posts, counterAdds,
                   histRecs, resp>>

\* process_business_logic, from the additional processing to its success log.
PblWork(r) ==
    /\ pc[r] = "pbl_work"
    /\ IF fault[r] = "process_business_logic_work"
       THEN /\ Raise(r, FaultMessage(fault[r]), "pbl_except")
            /\ UNCHANGED <<pend, after, onRaise, counterAdds, histRecs>>
       ELSE /\ counterAdds' = [counterAdds EXCEPT ![r] =
                    Append(@, [amount |-> 1, status |-> "success",
                               by |-> "process_business_logic"])]
            /\ histRecs' = [histRecs EXCEPT ![r] =
                    Append(@, [by |-> "process_business_logic",
                               since |-> "process_business_logic"])]
            /\ CallSendLogs(r, LogCall("Business logic processing completed successfully",
                                       "info", RequestId(r), {}), "pbl_return", "pbl_except")
            /\ exc' = exc
    /\ UNCHANGED <<inputs, parsed, spans, sends, posts, ops, resp>>

\* process_business_logic, from its success log to the return.
PblReturn(r) ==
    /\ pc[r] = "pbl_return"
    /\ spans' = [spans EXCEPT ![r] = OnSpan(@, "process_business_logic", "ok", "none")]
    /\ Log(r, "return:process_business_logic")
    /\ pc' = [pc EXCEPT ![r] = "fn_complete"]
    /\ UNCHANGED <<inputs, parsed, after, onRaise, pend, exc, sends, posts, counterAdds,
                   histRecs, resp>>

\* process_business_logic, the except clause up to its error log.
PblExcept(r) ==
    /\ pc[r] = "pbl_except"
    /\ counterAdds' = [counterAdds EXCEPT ![r] =
            Append(@, [amount |-> 1, status |-> "error", by |-> "process_business_logic"])]
    /\ CallSendLogs(r, LogCall("Business logic processing failed", "error", RequestId(r),
                               ErrorDetail(exc[r])), "pbl_reraise", "pbl_unwind")
    /\ UNCHANGED <<inputs, parsed, exc, spans, sends, posts, histRecs, ops, resp>>

\* process_business_logic, the rest of the except clause, and the finally.
PblReraise(r) ==
    /\ pc[r] \in {"pbl_reraise", "pbl_unwind"}
    /\ spans' = [spans EXCEPT ![r] =
            IF pc[r] = "pbl_reraise"
            THEN OnSpan(@, "process_business_logic", "fail", exc[r])
            ELSE OnSpan(@, "process_business_logic", "end", "none")]
    /\ Log(r, "raise:process_business_logic")
    /\ pc' = [pc EXCEPT ![r] = "fn_except"]
    /\ UNCHANGED <<inputs, parsed, after, onRaise, pend, exc, sends, posts, counterAdds,
                   histRecs, resp>>

\* lambda_handler, the completion log.
FnComplete(r) ==
    /\ pc[r] = "fn_complete"
    /\ CallSendLogs(r, LogCall("Lambda function execution completed successfully",
                               "info", RequestId(r), {}), "fn_respond", "fn_except")
    /\ UNCHANGED <<inputs, parsed, exc, spans, sends, posts, counterAdds, histRecs, ops, resp>>

\* lambda_handler, from building response to return response, and the finally.
FnRespond(r) ==
    /\ pc[r] = "fn_respond"
    /\ resp' = [resp EXCEPT ![r] = Append(@, Response(200, SuccessBody("fn", RequestId(r))))]
    /\ spans' = [spans EXCEPT ![r] = OnSpan(@, "lambda_handler", "ok", "none")]
    /\ pc' = [pc EXCEPT ![r] = "returned"]
    /\ UNCHANGED <<inputs, parsed, after, onRaise, pend, exc, sends, posts, counterAdds,
                   histRecs, ops>>

\* lambda_handler, the except clause up to its error log.
FnExcept(r) ==
    /\ pc[r] = "fn_except"
    /\ IF ctx[r] = "none"
       THEN /\ Raise(r, AttributeErrorMessage, "escape")
            /\ UNCHANGED <<pend, after, onRaise>>
       ELSE /\ CallSendLogs(r, LogCall("Lambda function execution failed", "error",
                                       RequestId(r), ErrorDetail(exc[r])), "fn_fail", "escape")
            /\ exc' = exc
    /\ Log(r, "except:lambda_handler")
    /\ UNCHANGED <<inputs, parsed, spans, sends, posts, counterAdds, histRecs, resp>>

\* lambda_handler, the rest of the except clause, and the finally.
FnFail(r) ==
    /\ pc[r] = "fn_fail"
    /\ spans' = [spans EXCEPT ![r] = OnSpan(@, "lambda_handler", "fail", exc[r])]
    /\ resp' = [resp EXCEPT ![r] = Append(@, Response(500, ErrorBody(RequestId(r), exc[r])))]
    /\ pc' = [pc EXCEPT ![r] = "returned"]
    /\ UNCHANGED <<inputs, parsed, after, onRaise, pend, exc, sends, posts, counterAdds,
                   histRecs, ops>>

(***************************************************************************)
(* api_handler.py                                                          *)
(***************************************************************************)
\* lambda_handler, the try block up to the request log.
ApiReceive(r) ==
    /\ pc[r] = "body"
    /\ handler[r] = "api"
    /\ parsed' = [parsed EXCEPT ![r] =
            IF event[r] = "not_object" THEN @ ELSE ParseRequest(request[r])]
    /\ IF event[r] = "not_object" \/ ParseRequest(request[r]).fault \/ ctx[r] = "none"
       THEN /\ Raise(r, AttributeErrorMessage, "api_except")
            /\ UNCHANGED <<pend, after, onRaise>>
       ELSE /\ CallSendLogs(r, LogCall("API request received", "info", RequestId(r), {}),
                            "api_process", "api_except")
            /\ exc' = exc
    /\ spans' = [spans EXCEPT ![r] =
            IF event[r] = "not_object" \/ ParseRequest(request[r]).fault \/ ctx[r] = "none"
            THEN @
            ELSE OnSpan(@, "api_gateway_handler", "attrs", RequestId(r))]
    /\ UNCHANGED <<inputs, sends, posts, counterAdds, histRecs, ops, resp>>

\* process_api_request, from start_span to the external call.
ParEnter(r) ==
    /\ pc[r] = "api_process"
    /\ spans' = [spans EXCEPT ![r] =
            Append(@, IF fault[r] = "process_api_request_attrs"
                      THEN NewSpan("process_api_request")
                      ELSE SetRequestId(NewSpan("process_api_request"), RequestId(r)))]
    /\ Log(r, "call:process_api_request")
    /\ IF fault[r] = "process_api_request_attrs"
       THEN Raise(r, FaultMessage(fault[r]), "par_except")
       ELSE /\ pc' = [pc EXCEPT ![r] = "external_api"]
            /\ exc' = exc
    /\ UNCHANGED <<inputs, parsed, after, onRaise, pend, sends, posts, counterAdds,
                   histRecs, resp>>

\* call_external_api, the whole call.
CallExternalApi(r) ==
    /\ pc[r] = "external_api"
    /\ LET faulted == fault[r] = "external_api" IN
        /\ spans' = [spans EXCEPT ![r] =
                Append(@, SetRequestId(SubOpSpan("external_api_call", faulted,
                                                 FaultMessage("external_api")),
                                       RequestId(r)))]
        /\ ops' = [ops EXCEPT ![r] =
                @ \o <<"call:external_api",
                       IF faulted THEN "raise:external_api" ELSE "return:external_api">>]
        /\ pc' = [pc EXCEPT ![r] = Propagate(faulted, "par_work", "par_except")]
        /\ exc' = [exc EXCEPT ![r] = IF faulted THEN FaultMessage("external_api") ELSE @]
    /\ UNCHANGED <<inputs, parsed, after, onRaise, pend, sends, posts, counterAdds,
                   histRecs, resp>>

\* process_api_request, from the additional processing to the return.
ParWork(r) ==
    /\ pc[r] = "par_work"
    /\ IF fault[r] = "process_api_request_work"
       THEN /\ Raise(r, FaultMessage(fault[r]), "par_except")
            /\ UNCHANGED <<spans, ops>>
       ELSE /\ spans' = [spans EXCEPT ![r] = OnSpan(@, "process_api_request", "ok", "none")]
            /\ Log(r, "return:process_api_request")
            /\ pc' = [pc EXCEPT ![r] = "api_complete"]
            /\ exc' = exc
    /\ UNCHANGED <<inputs, parsed, after, onRaise, pend, sends, posts, counterAdds,
                   histRecs, resp>>

\* process_api_request, the except clause and the finally.
ParExcept(r) ==
    /\ pc[r] = "par_except"
    /\ spans' = [spans EXCEPT ![r] = OnSpan(@, "process_api_request", "fail", exc[r])]
    /\ Log(r, "raise:process_api_request")
    /\ pc' = [pc EXCEPT ![r] = "api_except"]
    /\ UNCHANGED <<inputs, parsed, after, onRaise, pend, exc, sends, posts, counterAdds,
                   histRecs, resp>>

\* lambda_handler, from response_time to the success log.
ApiComplete(r) ==
    /\ pc[r] = "api_complete"
    /\ counterAdds' = [counterAdds EXCEPT ![r] =
            Append(@, [amount |-> 1, status |-> "200", by |-> "lambda_handler"])]
    /\ histRecs' = [histRecs EXCEPT ![r] =
            Append(@, [by |-> "lambda_handler", since |-> "lambda_handler"])]
    /\ CallSendLogs(r, LogCall("API request processed successfully", "info", RequestId(r), {}),
                    "api_respond", "api_except")
    /\ UNCHANGED <<inputs, parsed, exc, spans, sends, posts, ops, resp>>

\* lambda_handler, from the success log to return response, and the finally.
ApiRespond(r) ==
    /\ pc[r] = "api_respond"
    /\ resp' = [resp EXCEPT ![r] = Append(@, Response(200, SuccessBody("api", RequestId(r))))]
    /\ spans' = [spans EXCEPT ![r] = OnSpan(@, "api_gateway_handler", "ok", "none")]
    /\ pc' = [pc EXCEPT ![r] = "returned"]
    /\ UNCHANGED <<inputs, parsed, after, onRaise, pend, exc, sends, posts, counterAdds,
                   histRecs, ops>>

\* lambda_handler, the except clause up to its error log.
ApiExcept(r) ==
    /\ pc[r] = "api_except"
    /\ IF event[r] = "not_object"
       THEN /\ Raise(r, AttributeErrorMessage, "escape")
            /\ UNCHANGED <<pend, after, onRaise, counterAdds>>
       ELSE /\ counterAdds' = [counterAdds EXCEPT ![r] =
                    Append(@, [amount |-> 1, status |-> "500", by |-> "lambda_handler"])]
            /\ IF ctx[r] = "none"
               THEN /\ Raise(r, AttributeErrorMessage, "escape")
                    /\ UNCHANGED <<pend, after, onRaise>>
               ELSE /\ CallSendLogs(r, LogCall("API request failed", "error", RequestId(r),
                                               ErrorDetail(exc[r])), "api_fail", "escape")
                    /\ exc' = exc
    /\ Log(r, "except:lambda_handler")
    /\ UNCHANGED <<inputs, parsed, spans, sends, posts, histRecs, resp>>

\* lambda_handler, the rest of the except clause, and the finally.
ApiFail(r) ==
    /\ pc[r] = "api_fail"
    /\ spans' = [spans EXCEPT ![r] = OnSpan(@, "api_gateway_handler", "fail", exc[r])]
    /\ resp' = [resp EXCEPT ![r] = Append(@, Response(500, ErrorBody(RequestId(r), exc[r])))]
    /\ pc' = [pc EXCEPT ![r] = "returned"]
    /\ UNCHANGED <<inputs, parsed, after, onRaise, pend, exc, sends, posts, counterAdds,
                   histRecs, ops>>

(***************************************************************************)
(* Specifications.                                                         *)
(***************************************************************************)
Step(r) ==
    \/ Invoke(r)
    \/ SendLogs(r)
    \/ HandlerEscape(r)
    \/ FnReceive(r)
    \/ PblEnter(r)
    \/ SimulateDynamoDB(r)
    \/ SimulateS3(r)
    \/ PblWork(r)
    \/ PblReturn(r)
    \/ PblExcept(r)
    \/ PblReraise(r)
    \/ FnComplete(r)
    \/ FnRespond(r)
    \/ FnExcept(r)
    \/ FnFail(r)
    \/ ApiReceive(r)
    \/ ParEnter(r)
    \/ CallExternalApi(r)
    \/ ParWork(r)
    \/ ParExcept(r)
    \/ ApiComplete(r)
    \/ ApiRespond(r)
    \/ ApiExcept(r)
    \/ ApiFail(r)

Next == \E r \in Runs : Step(r)

\* One invocation in one process.
Spec == Init /\ [][Next]_vars

Finished(r) == pc[r] \in {"returned", "raised"}

(***************************************************************************)
(* What an invocation did.                                                 *)
(***************************************************************************)
Returned(r) == pc[r] = "returned"

CallEvents ==
    {"call:process_business_logic", "call:dynamodb", "call:s3",
     "call:process_api_request", "call:external_api"}

RaiseEvents ==
    {"raise:process_business_logic", "raise:dynamodb", "raise:s3",
     "raise:process_api_request", "raise:external_api"}

ReturnEvents(h) ==
    IF h = "fn"
    THEN {"return:dynamodb", "return:s3", "return:process_business_logic"}
    ELSE {"return:external_api", "return:process_api_request"}

Events(r) == {ops[r][i] : i \in DOMAIN ops[r]}

SubOpRaised(r) == Events(r) \cap RaiseEvents # {}

AllSubOpsSucceeded(r) == ReturnEvents(handler[r]) \subseteq Events(r)

BodyValues(b) == {b[k] : k \in DOMAIN b}

SuccessTags == {"success", "200"}

(***************************************************************************)
(* C1                                                                      *)
(***************************************************************************)
\* C1: every invocation that ends has produced exactly one response, with
\* statusCode 200 or 500, and no exception has left lambda_handler.
C1_OneResponse ==
    \A r \in Runs :
        /\ pc[r] # "raised"
        /\ Len(resp[r]) <= 1
        /\ Finished(r) =>
            /\ Len(resp[r]) = 1
            /\ resp[r][1].statusCode \in {200, 500}

(***************************************************************************)
(* C2                                                                      *)
(***************************************************************************)
\* C2: when a sub-operation has raised, the handler returns 500 with a body of
\* exactly error, requestId and timestamp, error being the generic message, and
\* no value of the body is the fault's message or traceback; these are in the
\* error log's metadata and on the handler span.
C2_GenericFailure ==
    \A r \in Runs :
        (Finished(r) /\ SubOpRaised(r)) =>
            /\ Returned(r)
            /\ Len(resp[r]) = 1
            /\ resp[r][1].statusCode = 500
            /\ DOMAIN resp[r][1].body = {"error", "requestId", "timestamp"}
            /\ resp[r][1].body.error = GenericError
            /\ BodyValues(resp[r][1].body) \cap ErrorDetail(FaultMessage(fault[r])) = {}
            /\ spans[r][1].exception = FaultMessage(fault[r])
            /\ \E i \in DOMAIN sends[r] :
                    sends[r][i].call.detail = ErrorDetail(FaultMessage(fault[r]))

C2_Witness ==
    /\ Finished(1) /\ SubOpRaised(1)
    /\ handler[1] = "api" /\ fault[1] = "external_api"
    /\ resp[1][1].statusCode = 500

(***************************************************************************)
(* C3                                                                      *)
(***************************************************************************)
\* C3: an invocation that has returned has incremented the request counter
\* exactly once, by 1, tagged success iff the response is 200.
C3_CounterOnce ==
    \A r \in Runs :
        Returned(r) =>
            /\ Len(counterAdds[r]) = 1
            /\ counterAdds[r][1].amount = 1
            /\ (counterAdds[r][1].status \in SuccessTags) <=> (resp[r][1].statusCode = 200)

(***************************************************************************)
(* C4                                                                      *)
(***************************************************************************)
\* C4: no span is ended twice, and when the handler is left (by return or by
\* exception) every span that was started has been ended exactly once, so the
\* number of starts equals the number of ends.
C4_SpansEndedOnce ==
    \A r \in Runs :
        /\ \A i \in DOMAIN spans[r] : spans[r][i].ends <= 1
        /\ Finished(r) => \A i \in DOMAIN spans[r] : spans[r][i].ends = 1

\* A failed invocation with a disabled shipper: fault path and early return.
C4_Witness ==
    /\ Returned(1) /\ SubOpRaised(1)
    /\ ~SinkEnabled(cfg[1])
    /\ Len(sends[1]) >= 2
    /\ Len(spans[1]) >= 5

(***************************************************************************)
(* C5                                                                      *)
(***************************************************************************)
Incomplete(c) == \E f \in ConfigFields : c[f] = "absent"

\* C5: with one of endpoint, username, password, organization absent, no
\* send_logs call posts or raises, and an invocation whose sub-operations all
\* returned ends with statusCode 200.
C5_DisabledSink ==
    \A r \in Runs :
        Incomplete(cfg[r]) =>
            /\ posts[r] = <<>>
            /\ \A i \in DOMAIN sends[r] : ~sends[r][i].posted /\ ~sends[r][i].raised
            /\ exc[r] # "send_logs failed"
            /\ (Finished(r) /\ AllSubOpsSucceeded(r)) =>
                    (Returned(r) /\ Len(resp[r]) = 1 /\ resp[r][1].statusCode = 200)

C5_Witness ==
    /\ cfg[1]["organization"] = "absent"
    /\ \A f \in ConfigFields \ {"organization"} : cfg[1][f] = "set"
    /\ Returned(1) /\ AllSubOpsSucceeded(1)
    /\ Len(sends[1]) = 3
    /\ resp[1][1].statusCode = 200

(***************************************************************************)
(* C6                                                                      *)
(***************************************************************************)
\* C6: every send_logs call returns to its caller without raising and leaves
\* its span ended; the span is ERROR after a non-2xx answer or an exception in
\* building the record or in the transport (the exception recorded on it), and
\* OK after a 2xx answer.
C6_SendLogsAbsorbs ==
    \A r \in Runs :
        /\ exc[r] # "send_logs failed"
        /\ \A i \in DOMAIN sends[r] :
            LET s == sends[r][i]
                sp == spans[r][s.span] IN
            /\ ~s.raised
            /\ sp.name = SendSpanName(handler[r])
            /\ sp.ends = 1
            /\ s.outcome \in {"503", "transport_exception", "build_exception"} =>
                    sp.status = "ERROR"
            /\ s.outcome \in {"transport_exception", "build_exception"} =>
                    sp.exception # "none"
            /\ s.outcome = "2xx" => sp.status = "OK"

C6_Witness ==
    /\ Returned(1)
    /\ \E i, j, k \in DOMAIN sends[1] :
        /\ sends[1][i].outcome = "transport_exception"
        /\ sends[1][j].outcome = "503"
        /\ sends[1][k].outcome = "build_exception"
    /\ resp[1][1].statusCode = 200

(***************************************************************************)
(* C8                                                                      *)
(***************************************************************************)
\* C8: an invocation that has returned, with 200 or with 500, has made exactly
\* one histogram observation, made by lambda_handler with the time elapsed
\* since lambda_handler began.
C8_DurationOnce ==
    \A r \in Runs :
        Returned(r) =>
            /\ Len(histRecs[r]) = 1
            /\ histRecs[r][1].by = "lambda_handler"
            /\ histRecs[r][1].since = "lambda_handler"

(***************************************************************************)
(* C9                                                                      *)
(***************************************************************************)
\* C9: when the handler has returned, its span is OK iff the response is 200,
\* and ERROR with the exception recorded iff the response is 500; exactly one
\* status was ever set on it.
C9_TopSpanAgrees ==
    \A r \in Runs :
        Returned(r) =>
            LET top == spans[r][1]
                code == resp[r][1].statusCode IN
            /\ top.name = HandlerSpanName(handler[r])
            /\ (top.status = "OK") <=> (code = 200)
            /\ (top.status = "ERROR" /\ top.exception = exc[r] /\ exc[r] # "none")
                    <=> (code = 500)
            /\ top.status # "UNSET"
            /\ Cardinality(top.asked) = 1

C9_Witness ==
    /\ Returned(1)
    /\ resp[1][1].statusCode = 500
    /\ spans[1][1].status = "ERROR"
    /\ spans[1][1].exception = FaultMessage("s3")

(***************************************************************************)
(* C10                                                                     *)
(***************************************************************************)
ReceivedLog(h) ==
    IF h = "api" THEN "send:API request received"
    ELSE "send:Lambda function invocation started"

\* The order in which a handler calls its sub-operations.
CallOrder(h) ==
    IF h = "fn" THEN <<"call:process_business_logic", "call:dynamodb", "call:s3">>
    ELSE <<"call:process_api_request", "call:external_api">>

Before(r, a, b) ==
    \A j \in DOMAIN ops[r] : ops[r][j] = b => \E i \in 1..(j - 1) : ops[r][i] = a

\* C10: the received log is sent before any sub-operation is called; the
\* sub-operations are called in the handler's fixed order, each at most once;
\* after a sub-operation has raised none is called, and by the time the
\* invocation ends the fault has reached the except clause of lambda_handler.
C10_Ordered ==
    \A r \in Runs :
        LET o == ops[r]
            order == CallOrder(handler[r]) IN
        /\ \A j \in DOMAIN o : o[j] \in CallEvents =>
                /\ \E k \in DOMAIN order : order[k] = o[j]
                /\ \E i \in 1..(j - 1) : o[i] = ReceivedLog(handler[r])
                /\ \A i \in DOMAIN o : o[i] = o[j] => i = j
        /\ \A k \in 1..(Len(order) - 1) : Before(r, order[k], order[k + 1])
        /\ \A i, j \in DOMAIN o :
                (o[i] \in RaiseEvents /\ i < j) => o[j] \notin CallEvents
        /\ (Finished(r) /\ SubOpRaised(r)) =>
                \E i, j \in DOMAIN o :
                    i < j /\ o[i] \in RaiseEvents /\ o[j] = "except:lambda_handler"

C10_Witness ==
    /\ Returned(1)
    /\ handler[1] = "fn"
    /\ \E i \in DOMAIN ops[1] : ops[1][i] = "raise:dynamodb"
    /\ \A i \in DOMAIN ops[1] : ops[1][i] # "call:s3"

(***************************************************************************)
(* C7: two runs of one handler on one event, context and sub-operation     *)
(* behaviour, each in its own process with its own sink configuration and  *)
(* its own sink.  The runs share nothing, so the second is run after the   *)
(* first.                                                                  *)
(***************************************************************************)
Config(e, u, p, o) ==
    [f \in ConfigFields |->
        IF f = "base_endpoint" THEN e
        ELSE IF f = "username" THEN u
        ELSE IF f = "password" THEN p
        ELSE o]

\* Sink configurations compared: complete, unset, and two incomplete ones.
ComparedConfigs ==
    {Config("set", "set", "set", "set"),
     AllAbsent,
     Config("set", "set", "empty", "set"),
     Config("set", "set", "set", "absent")}

SameInputs ==
    /\ handler[1] = handler[2]
    /\ event[1] = event[2]
    /\ request[1] = request[2]
    /\ ctx[1] = ctx[2]
    /\ fault[1] = fault[2]

InitNI == InitRuns(Runs, ComparedConfigs) /\ handler[1] = handler[2]

NextNI ==
    \/ Step(1)
    \/ Finished(1) /\ Step(2) /\ SameInputs'

SpecNI == InitNI /\ [][NextNI]_vars

SubOpCalls(r) == SelectSeq(ops[r], LAMBDA e : e \in CallEvents)

Outcome(r) ==
    [left |-> pc[r],
     codes |-> [i \in DOMAIN resp[r] |-> resp[r][i].statusCode],
     keys |-> [i \in DOMAIN resp[r] |-> DOMAIN resp[r][i].body],
     calls |-> SubOpCalls(r),
     tags |-> [i \in DOMAIN counterAdds[r] |-> counterAdds[r][i].status]]

\* C7: two finished runs with the same handler, event, context and
\* sub-operation behaviour have the same statusCode, the same body keys, the
\* same sequence of sub-operation calls and the same counter tags, whatever
\* their sink configurations and sinks did.
C7_SinkIndependent ==
    (Finished(1) /\ Finished(2) /\ SameInputs) => Outcome(1) = Outcome(2)

\* A run whose sink failed on every call beside a run that never posted.
C7_Witness ==
    /\ Finished(1) /\ Finished(2) /\ SameInputs
    /\ SinkEnabled(cfg[1]) /\ ~SinkEnabled(cfg[2])
    /\ Len(sends[1]) = 3
    /\ \A i \in DOMAIN sends[1] : sends[1][i].outcome \in {"503", "transport_exception"}
    /\ \E i \in DOMAIN sends[1] : sends[1][i].outcome = "503"
    /\ posts[2] = <<>>
    /\ resp[1][1].statusCode = 200

(***************************************************************************)
(* C13                                                                     *)
(***************************************************************************)
OpenSpans(ss) == {i \in DOMAIN ss : ss[i].ends = 0}

\* The span most recently started and not yet ended.
InnermostOpen(ss) ==
    ss[CHOOSE i \in OpenSpans(ss) : \A j \in OpenSpans(ss) : j <= i].name

\* C13: a span started while another span of its invocation is open has the
\* innermost open span as its parent.
C13_SpansNest ==
    [][\A r \in Runs :
        (Len(spans'[r]) = Len(spans[r]) + 1 /\ OpenSpans(spans[r]) # {}) =>
            spans'[r][Len(spans'[r])].parent = InnermostOpen(spans[r])]_vars

(***************************************************************************)
(* C14                                                                     *)
(***************************************************************************)
\* C14: every POST carries the derived Basic authorization; a POST happens
\* only under a configuration whose four fields are all non-empty, and such a
\* configuration has its auth header derived; a send_logs call posts at most
\* once.
C14_PostsAuthorized ==
    \A r \in Runs :
        /\ \A i \in DOMAIN posts[r] : posts[r][i].authorization = "Basic"
        /\ posts[r] # <<>> => \A f \in ConfigFields : cfg[r][f] = "set"
        /\ (\A f \in ConfigFields : cfg[r][f] = "set") => AuthHeader(cfg[r]) = "Basic"
        /\ Len(posts[r]) = Cardinality({i \in DOMAIN sends[r] : sends[r][i].posted})
        /\ \A i \in DOMAIN posts[r] :
                \E j \in DOMAIN sends[r] :
                    sends[r][j].posted /\ sends[r][j].call = posts[r][i].record

\* Three calls under a complete configuration, each with its one POST.
C14_Witness ==
    /\ Returned(1)
    /\ Len(sends[1]) = 3
    /\ Len(posts[1]) = 3
    /\ \A i \in DOMAIN posts[1] : posts[1][i].authorization = "Basic"

(***************************************************************************)
(* C11: the API handler on event objects of every shape.                   *)
(***************************************************************************)
InitFields == InitRuns({1}, ComparedConfigs)

NextFields == Step(1) \/ InvokeRequest(1)

SpecFields == InitFields /\ [][NextFields]_vars

Missing(q, f) == q[f] # "present"

\* The run has an event object and is past the extraction of its fields.
Extracted(r) ==
    /\ handler[r] = "api"
    /\ event[r] # "not_object"
    /\ pc[r] \notin {"off", "idle", "body"}

\* Extraction did not fault, every field that is not there with a value has
\* its placeholder, and the invocation, once over, has returned 200 if its
\* context is a Lambda context and its sub-operations succeeded.
Defaulted(r) ==
    LET q == request[r]
        v == parsed[r] IN
    /\ ~v.fault
    /\ Missing(q, "httpMethod") => v.method = "UNKNOWN"
    /\ Missing(q, "path") => v.path = "/"
    /\ Missing(q, "queryStringParameters") => v.query_params = "{}"
    /\ Missing(q, "headers") => v.headers = "{}"
    /\ Missing(q, "User-Agent") => v.user_agent = "unknown"
    /\ (Missing(q, "requestContext") \/ Missing(q, "identity") \/ Missing(q, "sourceIp"))
            => v.source_ip = "unknown"
    /\ (Missing(q, "requestContext") \/ Missing(q, "requestId"))
            => v.api_gateway_request_id = ""
    /\ (Finished(r) /\ ctx[r] # "none" /\ fault[r] = "none") =>
            (Returned(r) /\ Len(resp[r]) = 1 /\ resp[r][1].statusCode = 200)

\* C11 as claimed: whichever of the fields are absent or null, extraction does
\* not fault, each such field has its placeholder, and the response is 200
\* when the sub-operations succeed.
C11_FieldsDefaulted == \A r \in Runs : Extracted(r) => Defaulted(r)

\* null is read as missing only where the code reads with "or {}".
NullWhereGuarded(q) ==
    \A f \in RequestFields : q[f] = "null" => f \in {"queryStringParameters", "headers"}

\* C11 as amended: whichever of the fields are absent, and whether
\* queryStringParameters and headers are absent or null, extraction does not
\* fault, each such field has its placeholder, and the response is 200 when
\* the sub-operations succeed.
C11_AbsentDefaulted ==
    \A r \in Runs : (Extracted(r) /\ NullWhereGuarded(request[r])) => Defaulted(r)

C11_Witness ==
    /\ Returned(1) /\ Extracted(1)
    /\ request[1]["queryStringParameters"] = "null"
    /\ request[1]["headers"] = "null"
    /\ request[1]["httpMethod"] = "absent"
    /\ request[1]["path"] = "absent"
    /\ request[1]["requestContext"] = "absent"
    /\ parsed[1].query_params = "{}"
    /\ parsed[1].source_ip = "unknown"
    /\ resp[1][1].statusCode = 200

(***************************************************************************)
(* C12: invocations interleaved in one process.                            *)
(***************************************************************************)
\* One process: the module is loaded once, so both invocations run the same
\* handler and share the one module-level openobserve_logger.
InitConc ==
    /\ InitRuns(Runs, ComparedConfigs)
    /\ handler[1] = handler[2]
    /\ cfg[1] = cfg[2]

Invoked(r) == pc[r] \notin {"off", "idle"}

\* The platform gives every invocation a context with a request id of its own.
DistinctRequestIds ==
    /\ Invoked(1) => ctx[1] = "req-a"
    /\ Invoked(2) => ctx[2] = "req-b"

\* What the sink does to the posts of interleaved invocations: it answers,
\* or the transport fails.
ConcOutcomes == {"2xx", "transport_exception", "disabled"}

SinkAnswers ==
    \A r \in Runs : \A i \in DOMAIN sends[r] : sends[r][i].outcome \in ConcOutcomes

\* The steps of the two invocations interleave freely.
NextConc == \E r \in Runs : Step(r) /\ DistinctRequestIds' /\ SinkAnswers'

SpecConc == InitConc /\ [][NextConc]_vars

\* Every log record, span attribute and response body of an invocation
\* carries that invocation's request id.
OwnRequestId(r) ==
    /\ \A i \in DOMAIN sends[r] : sends[r][i].call.request_id = ctx[r]
    /\ \A i \in DOMAIN posts[r] : posts[r][i].record.request_id = ctx[r]
    /\ \A i \in DOMAIN spans[r] : spans[r][i].request_id \in {"none", ctx[r]}
    /\ \A i \in DOMAIN resp[r] : resp[r][i].body.requestId = ctx[r]

\* What makes an invocation fail, in its own inputs: an injected fault in a
\* sub-operation, an event that is not an object, or (API handler) a null
\* requestContext or identity.
OwnFault(r) ==
    \/ fault[r] # "none"
    \/ event[r] = "not_object"
    \/ handler[r] = "api" /\ ParseRequest(request[r]).fault

\* The status an invocation returns follows from its own inputs alone.
OwnStatus(r) ==
    (Returned(r) /\ Len(resp[r]) = 1) =>
        (resp[r][1].statusCode = IF OwnFault(r) THEN 500 ELSE 200)

\* C12: when invocations with distinct request ids interleave in one process,
\* no step writes the sink configuration, every log record, span attribute and
\* response of an invocation carries its own request id, and the status an
\* invocation returns is decided by its own input and fault, whatever the
\* other invocation does.
C12_Isolated ==
    [][/\ cfg' = cfg
       /\ \A r \in Runs : OwnRequestId(r)' /\ OwnStatus(r)']_vars

\* Both invocations are in flight at once under distinct request ids: the
\* first has faulted in a sub-operation, the second has come through its
\* sub-operations, and each has posted records under its own id.
C12_Witness ==
    /\ Invoked(1) /\ ~Finished(1)
    /\ Invoked(2) /\ ~Finished(2)
    /\ ctx[1] # ctx[2]
    /\ SubOpRaised(1) /\ exc[1] # "none"
    /\ AllSubOpsSucceeded(2) /\ exc[2] = "none"
    /\ Len(posts[1]) >= 1 /\ Len(posts[2]) >= 1
    /\ \A i \in DOMAIN posts[1] : posts[1][i].record.request_id = ctx[1]
    /\ \A i \in DOMAIN posts[2] : posts[2][i].record.request_id = ctx[2]

====
